---- MODULE Spec2Model ----
(***************************************************************************)
(* Model of the unix file tree generator: the node model of               *)
(* gen/nodes/base.py and gen/nodes/node.py, the aggregation properties of *)
(* Directory, and the construction pipeline TreeGenerator2.generate_tree  *)
(* of gen/tree_gen2.py with its thread pool.                              *)
(*                                                                        *)
(* Nodes are numbered 1..MaxNodes; kind[n] = "none" is a number that no   *)
(* object has been constructed for yet.  Every add_node call of the       *)
(* program passes a freshly constructed object, so a child is always a    *)
(* fresh number.                                                          *)
(***************************************************************************)
EXTENDS Integers, Sequences, FiniteSets, TLC

\* ------------------------------------------------------------------ bounds
MaxNodes == 3

\* the configured owner list (self.owners) and the owner names a node may
\* carry: the empty owner is the one create_symlinks_in_tree constructs a
\* SymLink with
owners == {"root", "admin"}
AllOwners == owners \cup {""}
Sizes == {1, 2}
StSizes == {1}
LinkOverhead == 2

Nodes == 1..MaxNodes
Kinds == {"Directory", "File", "HardLink", "SymLink"}
LeafKinds == {"File", "HardLink", "SymLink"}
RootNode == 1

VARIABLES
    kind,        \* node -> class of the object, "none" when not constructed
    owner,       \* node -> owner attribute
    size,        \* node -> size attribute (File, SymLink), 0 otherwise
    file_obj,    \* node -> link target of a HardLink / SymLink
    sub_nodes,   \* node -> the _sub_nodes list
    last_call,   \* the latest add_node call: its target, what it raised,
                 \* and whether any attribute or list differed after it
    cfg,         \* the arguments TreeGenerator2 was constructed with
    pc,          \* where the thread running generate_tree is
    ctl,         \* its loop state: current_dirs_level, next_dirs_level, ...
    fcount,      \* files_to_create_count of the create_level under way
    tasks,       \* every call submitted to the executor, in submission order
    batch_from,  \* index of the first task of the executor.map under way
    disk,        \* the nodes whose filesystem object exists
    made,        \* node -> how many times its object was created on disk
    error,       \* the exception that ended the run, "none" otherwise
    cwd,         \* the working directory of the process, as a location
    lock,        \* the thread holding the module's Lock, 0 when free
    wk,          \* thread -> the create_dir / create_file call it is in
    fparams,     \* the latest _gen_file_params call and what it returned
    drawn,       \* what the seeded generator was asked for, object by object,
                 \* in the order of the asking, with the thread that asked
    report,      \* what JsonTreeReporter.save_report handed to json.dump
    mat,         \* the File object under way and the file create_file made of it
    names        \* the names given so far in the directory being filled, the
                 \* name drawn for the next child, and the loop that draws

treeVars == <<kind, owner, size, file_obj, sub_nodes>>
genVars == <<cfg, pc, ctl, fcount, tasks, batch_from, disk, made, error, drawn, report, mat, names>>
auxVars == <<cwd, lock, wk, fparams>>
vars == <<kind, owner, size, file_obj, sub_nodes, last_call,
          cfg, pc, ctl, fcount, tasks, batch_from, disk, made, error,
          cwd, lock, wk, fparams, drawn, report, mat, names>>

NoObj == [node |-> 0, live |-> FALSE]
NoReport == [t |-> "none", s |-> "", v |-> 0, items |-> <<>>]
NoAttrs == [size |-> <<0, 0>>, atime |-> 0, mtime |-> 0, owner |-> ""]
NoNames == [ls |-> <<>>, draw |-> <<>>, at |-> "dirs", num |-> 0]
NoMat == [state |-> "none", file |-> NoAttrs, on_disk |-> NoAttrs]
NoCall == [target |-> 0, raised |-> "none", mutated |-> FALSE]
NoCtl == [stage |-> "root", level |-> <<>>, idx |-> 1, next_level |-> <<>>, iter |-> 0,
          num |-> 0, params |-> <<>>]
NoCfg == [tree_depth |-> 0, random |-> FALSE, dirs_count |-> 0, files_count |-> 0,
          min_dirs_count |-> 0, max_dirs_count |-> 0,
          min_files_count |-> 0, max_files_count |-> 0,
          hard_links_count |-> 0, symlinks_count |-> 0]

NoParams == [file_sizes |-> <<>>, size_class |-> "none", base |-> <<0, 0>>,
             final_size |-> <<0, 0>>, file_type |-> "none"]

\* no create_dir / create_file call is looked at
AuxIdle ==
    /\ cwd = <<>>
    /\ lock = 0
    /\ wk = <<>>
    /\ fparams = NoParams

\* ------------------------------------------------------------ sequences
RECURSIVE SumSeq(_)
SumSeq(s) == IF s = <<>> THEN 0 ELSE Head(s) + SumSeq(Tail(s))

Range(s) == {s[i] : i \in DOMAIN s}

\* ------------------------------------------------- gen/nodes/base.py
\* AbstractNode.add_node: append to the node's own list
AbstractNode_add_node(sn, t, c) ==
    [sub_nodes |-> [sn EXCEPT ![t] = Append(@, c)], raised |-> "none"]

\* a leaf that takes the child silently (what a missing override would do)
AbstractLeafNode_add_node_silent(sn, t, c) ==
    [sub_nodes |-> [sn EXCEPT ![t] = Append(@, c)], raised |-> "none"]

\* AbstractLeafNode.add_node: raise TypeError, touch nothing
AbstractLeafNode_add_node(sn, t, c) ==
    [sub_nodes |-> sn, raised |-> "TypeError"]

\* method dispatch on the class of the receiver
dispatch_add_node(sn, t, c) ==
    IF kind[t] = "Directory"
    THEN AbstractNode_add_node(sn, t, c)
    ELSE AbstractLeafNode_add_node(sn, t, c)

isinstance(n, type_constraint) ==
    type_constraint = "None" \/ kind[n] = type_constraint

RECURSIVE sub_nodes_generator(_, _, _)
RECURSIVE sub_nodes_from(_, _, _, _)
RECURSIVE sub_nodes_from_pruned(_, _, _, _)
\* a loop that only goes below the children it yields
sub_nodes_from_pruned(n, type_constraint, recursive, i) ==
    IF i > Len(sub_nodes[n]) THEN <<>>
    ELSE LET sub_node == sub_nodes[n][i] IN
         (IF isinstance(sub_node, type_constraint)
          THEN <<sub_node>> \o (IF recursive
                                THEN sub_nodes_generator(sub_node, type_constraint, TRUE)
                                ELSE <<>>)
          ELSE <<>>)
         \o sub_nodes_from_pruned(n, type_constraint, recursive, i + 1)

\* the body of the for loop of sub_nodes_generator, from the i-th child on
sub_nodes_from(n, type_constraint, recursive, i) ==
    IF i > Len(sub_nodes[n]) THEN <<>>
    ELSE LET sub_node == sub_nodes[n][i] IN
         (IF isinstance(sub_node, type_constraint) THEN <<sub_node>> ELSE <<>>)
         \o (IF recursive
             THEN sub_nodes_generator(sub_node, type_constraint, TRUE)
             ELSE <<>>)
         \o sub_nodes_from(n, type_constraint, recursive, i + 1)

sub_nodes_generator(n, type_constraint, recursive) ==
    sub_nodes_from(n, type_constraint, recursive, 1)

\* ------------------------------ iter_sub_nodes (its code is not in src/)
\* scan_depth of a call that gives no bound
Unbounded == -1

RECURSIVE iter_sub_nodes_from(_, _, _, _)
\* the children of n from the i-th on, each followed by what lies below it
\* as far as scan_depth allows
iter_sub_nodes_from(n, type_constraint, scan_depth, i) ==
    IF i > Len(sub_nodes[n]) THEN <<>>
    ELSE LET sub_node == sub_nodes[n][i] IN
         (IF isinstance(sub_node, type_constraint) THEN <<sub_node>> ELSE <<>>)
         \o (IF scan_depth = Unbounded
             THEN iter_sub_nodes_from(sub_node, type_constraint, Unbounded, 1)
             ELSE IF scan_depth > 0
             THEN iter_sub_nodes_from(sub_node, type_constraint, scan_depth - 1, 1)
             ELSE <<>>)
         \o iter_sub_nodes_from(n, type_constraint, scan_depth, i + 1)

\* an iteration that takes scan_depth as the number of levels to yield
iter_sub_nodes_levels(n, type_constraint, scan_depth) ==
    IF scan_depth = Unbounded THEN iter_sub_nodes_from(n, type_constraint, Unbounded, 1)
    ELSE IF scan_depth = 0 THEN iter_sub_nodes_from(n, type_constraint, 0, 1)
    ELSE iter_sub_nodes_from(n, type_constraint, scan_depth - 1, 1)

\* iter_sub_nodes(type_constraint, scan_depth): direct children for 0, N
\* more levels for N, everything when there is no bound
iter_sub_nodes(n, type_constraint, scan_depth) ==
    iter_sub_nodes_from(n, type_constraint, scan_depth, 1)

get_nodes_count(n, type_constraint) ==
    Len(sub_nodes_generator(n, type_constraint, FALSE))

get_all_nodes_count(n, type_constraint) ==
    Len(sub_nodes_generator(n, type_constraint, TRUE))

\* ------------------------------------------------- gen/nodes/node.py
\* Directory.sub_dirs / files / symlinks / hard_links (the getters)
sub_dirs(d) == sub_nodes_generator(d, "Directory", FALSE)
files(d) == sub_nodes_generator(d, "File", FALSE)
symlinks(d) == sub_nodes_generator(d, "SymLink", FALSE)
hard_links(d) == sub_nodes_generator(d, "HardLink", FALSE)

\* total_files_count that forgets the symlinks
total_files_count_files_only(d) ==
    get_all_nodes_count(d, "File")

total_files_count(d) ==
    LET files_n == get_all_nodes_count(d, "File")
        symlinks_n == get_all_nodes_count(d, "SymLink")
    IN files_n + symlinks_n

current_dir_files_count(d) ==
    LET files_n == get_nodes_count(d, "File")
        symlinks_n == get_nodes_count(d, "SymLink")
    IN files_n + symlinks_n

sub_dirs_files_count(d) == total_files_count(d) - current_dir_files_count(d)

get_all_files(d) == sub_nodes_generator(d, "File", TRUE)
get_all_dirs(d) == sub_nodes_generator(d, "Directory", TRUE)

SizesOf(s) == [i \in DOMAIN s |-> size[s[i]]]

total_file_size_in_dir(d) ==
    SumSeq(SizesOf(files(d))) + SumSeq(SizesOf(symlinks(d)))

\* total_size_all_files that adds the sizes of the files only
total_size_all_files_files_only(d) ==
    SumSeq(SizesOf(sub_nodes_generator(d, "File", TRUE)))

total_size_all_files(d) ==
    LET files_size == SumSeq(SizesOf(sub_nodes_generator(d, "File", TRUE)))
        symlinks_size == SumSeq(SizesOf(sub_nodes_generator(d, "SymLink", TRUE)))
    IN files_size + symlinks_size

\* line 211: all directories of the subtree minus the direct ones
total_sub_dirs_count(d) ==
    get_all_nodes_count(d, "Directory") - get_nodes_count(d, "Directory")

sub_dirs_count(d) == get_nodes_count(d, "Directory")

total_hard_links_count(d) == get_all_nodes_count(d, "HardLink")
total_symlinks_count(d) == get_all_nodes_count(d, "SymLink")

\* line 341: the length of the node's own list
total_entries(d) == Len(sub_nodes[d])

\* every Directory gets self.owners as its possible_owners
possible_owners(d) == owners

RECURSIVE get_sub_dirs(_)
RECURSIVE get_sub_dirs_from(_, _)
\* the nested get_sub_dirs of metrics_by_owners: the directory, then the
\* directories below each of its sub_dirs
get_sub_dirs_from(s, i) ==
    IF i > Len(s) THEN <<>>
    ELSE get_sub_dirs(s[i]) \o get_sub_dirs_from(s, i + 1)

get_sub_dirs(current_dir) ==
    <<current_dir>> \o get_sub_dirs_from(sub_dirs(current_dir), 1)

RECURSIVE FlatFiles_files_only(_)
\* the files of every directory of a list, their symlinks left out
FlatFiles_files_only(s) ==
    IF s = <<>> THEN <<>>
    ELSE files(Head(s)) \o FlatFiles_files_only(Tail(s))

RECURSIVE FlatFiles(_)
\* [*sub_dir.files, *sub_dir.symlinks] of every directory of a list, in order
FlatFiles(s) ==
    IF s = <<>> THEN <<>>
    ELSE files(Head(s)) \o symlinks(Head(s)) \o FlatFiles(Tail(s))

CountOwner(s, o) == Len(SelectSeq(s, LAMBDA n : owner[n] = o))
SizeOwner(s, o) == SumSeq(SizesOf(SelectSeq(s, LAMBDA n : owner[n] = o)))

\* the owners metrics_by_owners looks up in its metrics dict
metrics_lookups(d) ==
    LET all_sub_dirs == get_sub_dirs_from(sub_dirs(d), 1)
    IN  Range(files(d) \o symlinks(d) \o sub_dirs(d) \o all_sub_dirs
              \o FlatFiles(all_sub_dirs))

\* metrics_by_owners that skips the nodes of owners it has no record for
metrics_by_owners_skipping(d) ==
    LET all_sub_dirs == get_sub_dirs_from(sub_dirs(d), 1)
        own == files(d) \o symlinks(d)
        sub == FlatFiles(all_sub_dirs)
    IN  [raised |-> "none",
         metrics |-> [o \in possible_owners(d) |->
            [own_files_size  |-> SizeOwner(own, o),
             sub_files_size  |-> SizeOwner(own, o) + SizeOwner(sub, o),
             own_files_count |-> CountOwner(own, o),
             sub_files_count |-> CountOwner(own, o) + CountOwner(sub, o),
             own_dirs_count  |-> CountOwner(sub_dirs(d), o),
             sub_dirs_count  |-> CountOwner(all_sub_dirs, o)]]]

\* metrics_by_owners: a zeroed record per possible owner, then the credits;
\* metrics[x.owner] of an owner without a record raises KeyError
metrics_by_owners(d) ==
    LET all_sub_dirs == get_sub_dirs_from(sub_dirs(d), 1)
        own == files(d) \o symlinks(d)
        sub == FlatFiles(all_sub_dirs)
    IN  IF \E n \in metrics_lookups(d) : owner[n] \notin possible_owners(d)
        THEN [raised |-> "KeyError", metrics |-> <<>>]
        ELSE [raised |-> "none",
              metrics |-> [o \in possible_owners(d) |->
                 [own_files_size  |-> SizeOwner(own, o),
                  sub_files_size  |-> SizeOwner(own, o) + SizeOwner(sub, o),
                  own_files_count |-> CountOwner(own, o),
                  sub_files_count |-> CountOwner(own, o) + CountOwner(sub, o),
                  own_dirs_count  |-> CountOwner(sub_dirs(d), o),
                  sub_dirs_count  |-> CountOwner(all_sub_dirs, o)]]]

\* ------------------------------------------------- gen/utils/utilits.py
\* a make_symlink that leaves the owner of the object as it finds it
make_symlink_node_no_owner(n, st_size, o) ==
    /\ file_obj' = [file_obj EXCEPT ![n] =
            IF @.node # 0 /\ kind[@.node] = "Directory"
            THEN [@ EXCEPT !.live = FALSE] ELSE @]
    /\ size' = [size EXCEPT ![n] = st_size + LinkOverhead]
    /\ owner' = owner

\* a make_symlink that keeps the reference to a Directory target
make_symlink_node_live(n, st_size, o) ==
    /\ file_obj' = file_obj
    /\ size' = [size EXCEPT ![n] = st_size + LinkOverhead]
    /\ owner' = [owner EXCEPT ![n] = o]

\* make_symlink on the node: a Directory target is replaced by a flat
\* record, the size becomes the reported link size plus two, the owner is
\* set last
make_symlink_node(n, st_size, o) ==
    /\ file_obj' = [file_obj EXCEPT ![n] =
            IF @.node # 0 /\ kind[@.node] = "Directory"
            THEN [@ EXCEPT !.live = FALSE] ELSE @]
    /\ size' = [size EXCEPT ![n] = st_size + LinkOverhead]
    /\ owner' = [owner EXCEPT ![n] = o]

\* ------------------------------------------------------- the node model
\* first number no object was constructed for
Free == {n \in DOMAIN kind : kind[n] = "none"}

\* the number the next constructed object gets; 0 stands for an object
\* constructed when every number is taken
Fresh ==
    IF Free = {} THEN 0
    ELSE CHOOSE n \in Free : \A m \in Free : n <= m

Allocated == {n \in DOMAIN kind : kind[n] # "none"}

\* what a constructor call may be given as the link target
Targets(k) ==
    LET ok == IF k = "HardLink" THEN {n \in Allocated : kind[n] = "File"}
              ELSE IF k = "SymLink"
                   THEN {n \in Allocated : kind[n] \in {"File", "Directory"}}
                   ELSE {}
    IN  IF k \in {"HardLink", "SymLink"}
        THEN {[node |-> n, live |-> TRUE] : n \in ok}
        ELSE {NoObj}

InitTree ==
    /\ \E o \in AllOwners :
         owner = [n \in Nodes |-> IF n = RootNode THEN o ELSE ""]
    /\ kind = [n \in Nodes |-> IF n = RootNode THEN "Directory" ELSE "none"]
    /\ size = [n \in Nodes |-> 0]
    /\ file_obj = [n \in Nodes |-> NoObj]
    /\ sub_nodes = [n \in Nodes |-> <<>>]
    /\ last_call = NoCall
    /\ cfg = NoCfg
    /\ pc = "idle"
    /\ ctl = NoCtl
    /\ fcount = 0
    /\ tasks = <<>>
    /\ batch_from = 1
    /\ disk = {}
    /\ made = [n \in Nodes |-> 0]
    /\ error = "none"
    /\ drawn = <<>>
    /\ report = NoReport
    /\ mat = NoMat
    /\ names = NoNames
    /\ AuxIdle

\* construct an object of class k and call t.add_node(it)
add_node(t, k, o, s, fo) ==
    /\ t \in Allocated
    /\ kind[t] = "Directory" => Free # {}
    /\ LET c == Fresh
           res == dispatch_add_node(sub_nodes, t, c)
       IN  /\ sub_nodes' = res.sub_nodes
           /\ IF res.sub_nodes # sub_nodes
              THEN /\ c # 0
                   /\ kind' = [kind EXCEPT ![c] = k]
                   /\ owner' = [owner EXCEPT ![c] = o]
                   /\ size' = [size EXCEPT ![c] = s]
                   /\ file_obj' = [file_obj EXCEPT ![c] = fo]
              ELSE UNCHANGED <<kind, owner, size, file_obj>>
           /\ last_call' = [target |-> t, raised |-> res.raised,
                             mutated |-> treeVars' # treeVars]
           /\ UNCHANGED <<genVars, auxVars>>

AddNode ==
    \E t \in Nodes, k \in Kinds, o \in AllOwners :
      \E s \in (IF k = "File" THEN Sizes ELSE {0}), fo \in Targets(k) :
        add_node(t, k, o, s, fo)

\* the size and owner of a symlink of the tree are patched
MakeSymlink ==
    \E n \in Allocated, st \in StSizes, o \in owners :
        /\ kind[n] = "SymLink"
        /\ \E d \in Allocated : n \in Range(sub_nodes[d])
        /\ make_symlink_node(n, st, o)
        /\ UNCHANGED <<kind, sub_nodes, last_call>>
        /\ UNCHANGED <<genVars, auxVars>>

NextTree == AddNode \/ MakeSymlink

SpecTree == InitTree /\ [][NextTree]_vars

\* =================================================================
\* gen/tree_gen2.py: TreeGenerator2.generate_tree and its thread pool
\* =================================================================
max_workers == 10
MaxDepth == 2
MaxDirs == 2
MaxFiles == 1
MaxLinks == 1
MaxGenNodes == 7
MaxFailures == 1

RECURSIVE Pow(_, _)
Pow(b, e) == IF e = 0 THEN 1 ELSE b * Pow(b, e - 1)

RECURSIVE GeomSum(_, _)
\* 1 + b + ... + b^e
GeomSum(b, e) == IF e = 0 THEN 1 ELSE Pow(b, e) + GeomSum(b, e - 1)

\* the most nodes a run with these arguments constructs
WorstNodes(c) ==
    LET d == IF c.random THEN c.max_dirs_count ELSE c.dirs_count
        f == IF c.random THEN c.max_files_count ELSE c.files_count
        dirs_n == GeomSum(d, c.tree_depth)
    IN  dirs_n + dirs_n * f + c.hard_links_count + c.symlinks_count

\* the argument sets validate_args lets through, small enough to run; the
\* counts the mode does not read are left at 0
Configs ==
    {c \in [tree_depth : 1..MaxDepth, random : BOOLEAN,
            dirs_count : 0..MaxDirs, files_count : 0..MaxFiles,
            min_dirs_count : 0..MaxDirs, max_dirs_count : 0..MaxDirs,
            min_files_count : 0..MaxFiles, max_files_count : 0..MaxFiles,
            hard_links_count : 0..MaxLinks, symlinks_count : 0..MaxLinks] :
        /\ c.random => /\ c.min_dirs_count <= c.max_dirs_count
                       /\ c.min_files_count <= c.max_files_count
                       /\ c.dirs_count = 0 /\ c.files_count = 0
        /\ ~c.random => /\ c.dirs_count >= 1
                        /\ c.min_dirs_count = 0 /\ c.max_dirs_count = 0
                        /\ c.min_files_count = 0 /\ c.max_files_count = 0
        /\ WorstNodes(c) <= MaxGenNodes}

\* arg_parser.py, lines 69-75: int((d ** (depth + 1) - 1) / (d - 1)), or
\* d * (depth + 1) when dirs_count is 1
expected_tree_dirs_count(c) ==
    IF c.dirs_count > 1
    THEN (Pow(c.dirs_count, c.tree_depth + 1) - 1) \div (c.dirs_count - 1)
    ELSE c.dirs_count * (c.tree_depth + 1)

\* arg_parser.py, lines 77-83
expected_tree_files_count(c) ==
    expected_tree_dirs_count(c) * c.files_count + c.hard_links_count + c.symlinks_count

\* get_node_counts that never looks at self.random
get_node_counts_ignoring_random ==
    {[dirs_count |-> cfg.dirs_count, files_count |-> cfg.files_count]}

\* get_node_counts: the counts a call may return
get_node_counts ==
    IF cfg.random
    THEN [dirs_count : cfg.min_dirs_count..cfg.max_dirs_count,
          files_count : cfg.min_files_count..cfg.max_files_count]
    ELSE {[dirs_count |-> cfg.dirs_count, files_count |-> cfg.files_count]}

\* self.owners and self.file_sizes of the runs looked at
gen_owners == {"root"}
gen_sizes == {2}

\* get_owners: a sample of one to len(owners) of the owners
get_owners == (SUBSET gen_owners) \ {{}}

\* choice(self.get_owners())
choice_of_owners == UNION get_owners

\* ---------------------------------------------------------- the executor
Task(op, n, o) == [op |-> op, node |-> n, owner |-> o, status |-> "queued"]

\* executor.map: one call per parameter, submitted in order
submit(ts, new) == ts \o new

Running == {i \in DOMAIN tasks : tasks[i].status = "running"}

\* a map whose results are never waited for
map_drained_no_wait(ts, from) == TRUE

\* the for loop over executor.map(...) has got every result
map_drained(ts, from) ==
    \A i \in DOMAIN ts : i >= from => ts[i].status = "done"

\* the result the loop over executor.map(...) raises on: the first failed
\* call, once the results before it are in; 0 when there is none
map_raises(ts, from) ==
    LET failed == {i \in DOMAIN ts :
                      /\ i >= from /\ ts[i].status = "failed"
                      /\ \A j \in DOMAIN ts : (j >= from /\ j < i) => ts[j].status = "done"}
    IN  IF failed = {} THEN 0 ELSE CHOOSE i \in failed : TRUE

\* result_iterator's finally: cancel every call that has not started
cancel_pending(ts) ==
    [i \in DOMAIN ts |->
        IF ts[i].status = "queued" THEN [ts[i] EXCEPT !.status = "cancelled"] ELSE ts[i]]

\* ------------------------------------------------------- logical tree
\* numbers of the next k constructed objects
NewIds(k) == [i \in 1..k |-> Cardinality(Allocated) + i]

RECURSIVE add_nodes(_, _, _)
\* current_dir.add_node(...) for every new object, in order
add_nodes(sn, d, ids) ==
    IF ids = <<>> THEN sn
    ELSE add_nodes(dispatch_add_node(sn, d, Head(ids)).sub_nodes, d, Tail(ids))

\* one entry of the log: the calling thread drew the attributes a of a new
\* object of directory d (0 for the root), by random's module-level functions
Drawn(d, a) ==
    [by |-> "main", parent |-> d, kind |-> a.kind, owner |-> a.owner, size |-> a.size,
     file_obj |-> a.file_obj, link_owner |-> a.link_owner]

\* the objects with numbers ids get the attributes attrs, and are added to d
Construct(d, ids, attrs) ==
    LET at(n) == CHOOSE i \in DOMAIN ids : ids[i] = n
        new == Range(ids)
    IN  /\ kind' = [n \in DOMAIN kind |-> IF n \in new THEN attrs[at(n)].kind ELSE kind[n]]
        /\ owner' = [n \in DOMAIN kind |-> IF n \in new THEN attrs[at(n)].owner ELSE owner[n]]
        /\ size' = [n \in DOMAIN kind |-> IF n \in new THEN attrs[at(n)].size ELSE size[n]]
        /\ file_obj' = [n \in DOMAIN kind |->
                           IF n \in new THEN attrs[at(n)].file_obj ELSE file_obj[n]]
        /\ sub_nodes' = add_nodes(sub_nodes, d, ids)
        /\ last_call' = IF ids = <<>> THEN last_call
                        ELSE [target |-> d, raised |-> "none", mutated |-> TRUE]
        /\ drawn' = drawn \o [i \in DOMAIN ids |-> Drawn(d, attrs[i])]

ParentOf(n) == CHOOSE d \in Allocated : n \in Range(sub_nodes[d])

\* the directory create_level / create_files_at_level is working on
Cur == IF ctl.stage = "root" THEN RootNode ELSE ctl.level[ctl.idx]

RECURSIVE Normalize(_)
\* the loop state at the next point where something is created
Normalize(c) ==
    IF c.stage = "levels"
    THEN IF c.idx <= Len(c.level) /\ c.iter < cfg.tree_depth - 1
         THEN c
         ELSE IF c.iter >= cfg.tree_depth - 1
              THEN [c EXCEPT !.stage = "final", !.idx = 1, !.next_level = <<>>]
              ELSE Normalize([c EXCEPT !.level = c.next_level, !.next_level = <<>>,
                                       !.idx = 1, !.iter = c.iter + 1])
    ELSE c

\* the phase that follows the last create_files_at_level: straight to links
AfterShape_links == "HardLinks"

\* the phase that follows the last create_files_at_level
AfterShape == "MaterializeFiles"

\* a run that leaves out the file pass over the last level
PcOf_no_final_pass(c) ==
    IF c.stage = "levels" THEN "Dirs" ELSE AfterShape

PcOf(c) ==
    IF c.stage = "levels" THEN "Dirs"
    ELSE IF c.idx <= Len(c.level) THEN "FinalFiles" ELSE AfterShape

InitGen ==
    /\ cfg \in Configs
    /\ kind = [n \in 1..WorstNodes(cfg) |-> "none"]
    /\ owner = [n \in 1..WorstNodes(cfg) |-> ""]
    /\ size = [n \in 1..WorstNodes(cfg) |-> 0]
    /\ file_obj = [n \in 1..WorstNodes(cfg) |-> NoObj]
    /\ sub_nodes = [n \in 1..WorstNodes(cfg) |-> <<>>]
    /\ made = [n \in 1..WorstNodes(cfg) |-> 0]
    /\ last_call = NoCall
    /\ pc = "CreateRoot"
    /\ ctl = NoCtl
    /\ fcount = 0
    /\ tasks = <<>>
    /\ batch_from = 1
    /\ disk = {}
    /\ error = "none"
    /\ drawn = <<>>
    /\ report = NoReport
    /\ mat = NoMat
    /\ names = NoNames
    /\ AuxIdle

\* lines 382-384: the root Directory object; its directory is made by the
\* calling thread itself when the path does not exist yet
CreateRoot ==
    /\ pc = "CreateRoot"
    /\ \E o \in choice_of_owners, exists \in BOOLEAN, ok \in BOOLEAN :
         /\ kind' = [kind EXCEPT ![RootNode] = "Directory"]
         /\ owner' = [owner EXCEPT ![RootNode] = o]
         /\ drawn' = <<Drawn(0, [kind |-> "Directory", owner |-> o, size |-> 0,
                                 file_obj |-> NoObj, link_owner |-> ""])>>
         /\ IF exists
            THEN /\ disk' = {RootNode} /\ pc' = "Dirs"
                 /\ UNCHANGED <<made, error>>
            ELSE IF ok
                 THEN /\ disk' = {RootNode} /\ pc' = "Dirs"
                      /\ made' = [made EXCEPT ![RootNode] = 1]
                      /\ UNCHANGED error
                 ELSE /\ pc' = "Failed" /\ error' = "OSError"
                      /\ UNCHANGED <<disk, made>>
    /\ UNCHANGED <<size, file_obj, sub_nodes, last_call, cfg, ctl, fcount, tasks, batch_from>>
    /\ UNCHANGED <<auxVars, report, mat, names>>

\* create_dirs_at_level: the Directory objects, then executor.map(create_dir)
CreateDirsAtLevel ==
    /\ pc = "Dirs"
    /\ \E counts \in get_node_counts :
        \E os \in [1..counts.dirs_count -> choice_of_owners] :
          LET ids == NewIds(counts.dirs_count)
              attrs == [i \in 1..counts.dirs_count |->
                          [kind |-> "Directory", owner |-> os[i], size |-> 0,
                           file_obj |-> NoObj, link_owner |-> ""]]
          IN  /\ Construct(Cur, ids, attrs)
              /\ batch_from' = Len(tasks) + 1
              /\ tasks' = submit(tasks,
                            [i \in 1..counts.dirs_count |-> Task("mkdir", ids[i], os[i])])
              /\ fcount' = counts.files_count
    /\ pc' = "DrainDirs"
    /\ UNCHANGED <<cfg, ctl, disk, made, error>>
    /\ UNCHANGED <<auxVars, report, mat, names>>

FileAttrs == [owner : choice_of_owners, size : gen_sizes]

\* create_files_at_level: File objects only, nothing is submitted
create_files_at_level(d, k) ==
    \E fa \in [1..k -> FileAttrs] :
        Construct(d, NewIds(k),
            [i \in 1..k |-> [kind |-> "File", owner |-> fa[i].owner,
                             size |-> fa[i].size, file_obj |-> NoObj,
                             link_owner |-> ""]])

\* the second half of create_level, and the step to the next directory
CreateFilesAtLevel ==
    /\ pc = "Files"
    /\ create_files_at_level(Cur, fcount)
    /\ LET nxt == IF ctl.stage = "root"
                  THEN [ctl EXCEPT !.stage = "levels", !.level = sub_dirs(RootNode)]
                  ELSE [ctl EXCEPT !.next_level = @ \o sub_dirs(Cur), !.idx = @ + 1]
       IN  /\ ctl' = Normalize(nxt)
           /\ pc' = PcOf(Normalize(nxt))
    /\ UNCHANGED <<cfg, fcount, tasks, batch_from, disk, made, error>>
    /\ UNCHANGED <<auxVars, report, mat, names>>

\* lines 402-405: the last level gets files and no directories
FinalFiles ==
    /\ pc = "FinalFiles"
    /\ \E counts \in get_node_counts : create_files_at_level(Cur, counts.files_count)
    /\ LET nxt == [ctl EXCEPT !.idx = @ + 1]
       IN  /\ ctl' = nxt
           /\ pc' = PcOf(nxt)
    /\ UNCHANGED <<cfg, fcount, tasks, batch_from, disk, made, error>>
    /\ UNCHANGED <<auxVars, report, mat, names>>

\* a sweep over the root's own files only
files_to_materialize_top_only == sub_nodes_generator(RootNode, "File", FALSE)

\* line 408: root_dir.sub_nodes_generator(recursive=True, type_constraint=File)
files_to_materialize == sub_nodes_generator(RootNode, "File", TRUE)

\* lines 407-410: executor.map(create_file, <every File of the tree>)
MaterializeFiles ==
    /\ pc = "MaterializeFiles"
    /\ LET fs == files_to_materialize
       IN  tasks' = submit(tasks, [i \in DOMAIN fs |-> Task("create_file", fs[i], owner[fs[i]])])
    /\ batch_from' = Len(tasks) + 1
    /\ pc' = "DrainFiles"
    /\ UNCHANGED <<treeVars, last_call, cfg, ctl, fcount, disk, made, error>>
    /\ UNCHANGED <<auxVars, drawn, report, mat, names>>

\* one pass of the loop of create_hard_links_in_tree / create_symlinks_in_tree
\* fails: randint(1, 0) on an empty files list is a ValueError, an index
\* equal to the length of the list an IndexError
Fail(e) ==
    /\ pc' = "Unwinding"
    /\ error' = e

\* randint(0, len(dirs)) and randint(1, len(files)), as 0-based indexes
dir_indexes(dirs) == 0..Len(dirs)
file_indexes(fls) == 1..Len(fls)

\* lines 328-339: one hard link object and its (src, dst) parameters.
\* dirs and files were listed before the loop; a HardLink or SymLink added
\* since is neither a Directory nor a File, so the lists read the same now.
HardLinkIter ==
    /\ pc = "HardLinks"
    /\ ctl.num < cfg.hard_links_count
    /\ LET dirs == get_all_dirs(RootNode)
           fls == get_all_files(RootNode)
       IN \/ /\ fls = <<>>
             /\ \E di \in dir_indexes(dirs) :
                  Fail(IF di >= Len(dirs) THEN "IndexError" ELSE "ValueError")
             /\ UNCHANGED <<treeVars, last_call, ctl, drawn>>
          \/ /\ fls # <<>>
             /\ \E di \in dir_indexes(dirs), fi \in file_indexes(fls) :
                  IF di >= Len(dirs) \/ fi >= Len(fls)
                  THEN /\ Fail("IndexError")
                       /\ UNCHANGED <<treeVars, last_call, ctl, drawn>>
                  ELSE LET t == fls[fi + 1]
                           ids == NewIds(1)
                       IN  /\ Construct(dirs[di + 1], ids,
                                 <<[kind |-> "HardLink", owner |-> owner[t], size |-> 0,
                                    file_obj |-> [node |-> t, live |-> TRUE],
                                    link_owner |-> ""]>>)
                           /\ ctl' = [ctl EXCEPT !.num = @ + 1,
                                        !.params = Append(@, Task("link", ids[1], owner[t]))]
                           /\ UNCHANGED <<pc, error>>
    /\ UNCHANGED <<cfg, fcount, tasks, batch_from, disk, made>>
    /\ UNCHANGED <<auxVars, report, mat, names>>

\* lines 357-374: one symlink object, owner '' and size 0, and its parameters
SymLinkIter ==
    /\ pc = "SymLinks"
    /\ ctl.num < cfg.symlinks_count
    /\ LET dirs == get_all_dirs(RootNode)
           fls == get_all_files(RootNode)
       IN \E di \in dir_indexes(dirs), to_file \in BOOLEAN :
            IF di >= Len(dirs)
            THEN /\ Fail("IndexError")
                 /\ UNCHANGED <<treeVars, last_call, ctl, drawn>>
            ELSE IF to_file /\ fls = <<>>
            THEN /\ Fail("ValueError")
                 /\ UNCHANGED <<treeVars, last_call, ctl, drawn>>
            ELSE \E ti \in IF to_file THEN file_indexes(fls) ELSE dir_indexes(dirs) :
                   IF ti >= (IF to_file THEN Len(fls) ELSE Len(dirs))
                   THEN /\ Fail("IndexError")
                        /\ UNCHANGED <<treeVars, last_call, ctl, drawn>>
                   ELSE \E o \in choice_of_owners :
                        LET t == IF to_file THEN fls[ti + 1] ELSE dirs[ti + 1]
                            ids == NewIds(1)
                        IN  /\ Construct(dirs[di + 1], ids,
                                  <<[kind |-> "SymLink", owner |-> "", size |-> 0,
                                     file_obj |-> [node |-> t, live |-> TRUE],
                                     link_owner |-> o]>>)
                            /\ ctl' = [ctl EXCEPT !.num = @ + 1,
                                         !.params = Append(@, Task("symlink", ids[1], o))]
                            /\ UNCHANGED <<pc, error>>
    /\ UNCHANGED <<cfg, fcount, tasks, batch_from, disk, made>>
    /\ UNCHANGED <<auxVars, report, mat, names>>

\* lines 341 and 376: executor.map over the collected parameters
SubmitLinks ==
    /\ \/ pc = "HardLinks" /\ ctl.num >= cfg.hard_links_count /\ pc' = "DrainHardLinks"
       \/ pc = "SymLinks" /\ ctl.num >= cfg.symlinks_count /\ pc' = "DrainSymLinks"
    /\ tasks' = submit(tasks, ctl.params)
    /\ batch_from' = Len(tasks) + 1
    /\ ctl' = [ctl EXCEPT !.num = 0, !.params = <<>>]
    /\ UNCHANGED <<treeVars, last_call, cfg, fcount, disk, made, error>>
    /\ UNCHANGED <<auxVars, drawn, report, mat, names>>

\* what the calling thread does once its for loop over a map has ended
AfterDrain(p) ==
    IF p = "DrainDirs" THEN "Files"
    ELSE IF p = "DrainFiles" THEN "HardLinks"
    ELSE IF p = "DrainHardLinks" THEN "SymLinks"
    ELSE "Report"

Draining == {"DrainDirs", "DrainFiles", "DrainHardLinks", "DrainSymLinks"}

\* the for loop over executor.map(...) ends: every call has returned
MapDone ==
    /\ pc \in Draining
    /\ map_drained(tasks, batch_from)
    /\ pc' = AfterDrain(pc)
    /\ UNCHANGED <<treeVars, last_call, cfg, ctl, fcount, tasks, batch_from, disk, made, error>>
    /\ UNCHANGED <<auxVars, drawn, report, mat, names>>

\* the for loop over executor.map(...) gets the exception of a call
MapRaise ==
    /\ pc \in Draining
    /\ map_raises(tasks, batch_from) # 0
    /\ tasks' = cancel_pending(tasks)
    /\ pc' = "Unwinding"
    /\ error' = "WorkerError"
    /\ UNCHANGED <<treeVars, last_call, cfg, ctl, fcount, batch_from, disk, made>>
    /\ UNCHANGED <<auxVars, drawn, report, mat, names>>

\* leaving "with ThreadPoolExecutor(...)" on an exception: shutdown(wait=True)
Unwound ==
    /\ pc = "Unwinding"
    /\ \A i \in DOMAIN tasks : tasks[i].status \notin {"queued", "running"}
    /\ pc' = "Failed"
    /\ UNCHANGED <<treeVars, last_call, cfg, ctl, fcount, tasks, batch_from, disk, made, error>>
    /\ UNCHANGED <<auxVars, drawn, report, mat, names>>

\* ------------------------------------------------ gen/utils/reporter.py
\* what asdict builds and json.dump writes: a dict is a list of (key, value)
\* pairs in field order, a list a list of values, anything else an atom
Atom(str, num) == [t |-> "atom", s |-> str, v |-> num, items |-> <<>>]
List(xs) == [t |-> "list", s |-> "", v |-> 0, items |-> xs]
Dict(kvs) == [t |-> "dict", s |-> "", v |-> 0, items |-> kvs]
KV(k, x) == [key |-> k, val |-> x]

RECURSIVE SetToSeq(_)
SetToSeq(S) ==
    IF S = {} THEN <<>>
    ELSE LET x == CHOOSE y \in S : TRUE IN <<x>> \o SetToSeq(S \ {x})

\* the dict make_symlink puts in place of a Directory target
flat_record(n) ==
    Dict(<<KV("name", Atom("", n)), KV("dest", Atom("", ParentOf(n))),
           KV("owner", Atom(owner[n], 0))>>)

\* the metrics_by_owners property as a dict of dicts
metrics_dict(d) ==
    LET m == metrics_by_owners(d).metrics
        os == SetToSeq(DOMAIN m)
    IN  Dict([i \in DOMAIN os |->
              KV(os[i], Dict(<<KV("own_files_size", Atom("", m[os[i]].own_files_size)),
                               KV("sub_files_size", Atom("", m[os[i]].sub_files_size)),
                               KV("own_files_count", Atom("", m[os[i]].own_files_count)),
                               KV("sub_files_count", Atom("", m[os[i]].sub_files_count)),
                               KV("own_dirs_count", Atom("", m[os[i]].own_dirs_count)),
                               KV("sub_dirs_count", Atom("", m[os[i]].sub_dirs_count))>>))])

RECURSIVE asdict(_)
\* dataclasses.asdict: every field of the dataclass, _sub_nodes included, read
\* with getattr (so the properties of Directory are evaluated) and converted
\* in turn
asdict(n) ==
    LET each(ns) == List([i \in DOMAIN ns |-> asdict(ns[i])])
        base == <<KV("dest", Atom("", IF n = RootNode THEN 0 ELSE ParentOf(n))),
                  KV("name", Atom("", n)),
                  KV("owner", Atom(owner[n], 0)),
                  KV("_sub_nodes", each(sub_nodes[n]))>>
        stamps == <<KV("atime", Atom("", 0)), KV("mtime", Atom("", 0))>>
        target == file_obj[n].node
    IN  IF kind[n] = "File"
        THEN Dict(base \o <<KV("size", Atom("", size[n]))>> \o stamps)
        ELSE IF kind[n] = "HardLink"
        THEN Dict(base \o <<KV("file_obj", asdict(target))>>)
        ELSE IF kind[n] = "SymLink"
        THEN Dict(base \o <<KV("file_obj", IF file_obj[n].live THEN asdict(target)
                                           ELSE flat_record(target))>>
                       \o stamps \o <<KV("size", Atom("", size[n]))>>)
        ELSE Dict(base \o
               <<KV("possible_owners",
                    List([i \in DOMAIN SetToSeq(possible_owners(n)) |->
                            Atom(SetToSeq(possible_owners(n))[i], 0)])),
                 KV("sub_dirs", each(sub_dirs(n))),
                 KV("files", each(files(n))),
                 KV("hard_links", each(hard_links(n))),
                 KV("symlinks", each(symlinks(n))),
                 KV("total_files_count", Atom("", total_files_count(n))),
                 KV("current_dir_files_count", Atom("", current_dir_files_count(n))),
                 KV("sub_dirs_files_count", Atom("", sub_dirs_files_count(n))),
                 KV("total_sub_dirs_count", Atom("", total_sub_dirs_count(n))),
                 KV("sub_dirs_count", Atom("", sub_dirs_count(n))),
                 KV("total_hard_links_count", Atom("", total_hard_links_count(n))),
                 KV("total_symlinks_count", Atom("", total_symlinks_count(n))),
                 KV("total_size_all_files", Atom("", total_size_all_files(n))),
                 KV("total_file_size_in_dir", Atom("", total_file_size_in_dir(n))),
                 KV("total_entries", Atom("", total_entries(n))),
                 KV("metrics_by_owners", metrics_dict(n))>>)

RECURSIVE remove_specific_key_top(_, _)
\* a removal that does not look into the lists
remove_specific_key_top(the_dict, rubbish) ==
    LET kept == SelectSeq(the_dict.items, LAMBDA kv : kv.key # rubbish)
    IN  Dict([i \in DOMAIN kept |->
              KV(kept[i].key,
                 IF kept[i].val.t = "dict"
                 THEN remove_specific_key_top(kept[i].val, rubbish)
                 ELSE kept[i].val)])

RECURSIVE remove_specific_key(_, _)
\* remove_specific_key: the key goes from the dict, then from every value
\* that is a dict and from every dict that is an item of a value that is a list
remove_specific_key(the_dict, rubbish) ==
    LET kept == SelectSeq(the_dict.items, LAMBDA kv : kv.key # rubbish)
        inner(value) ==
            IF value.t = "dict" THEN remove_specific_key(value, rubbish)
            ELSE IF value.t = "list"
            THEN List([j \in DOMAIN value.items |->
                         IF value.items[j].t = "dict"
                         THEN remove_specific_key(value.items[j], rubbish)
                         ELSE value.items[j]])
            ELSE value
    IN  Dict([i \in DOMAIN kept |-> KV(kept[i].key, inner(kept[i].val))])

\* JsonTreeReporter.save_report: asdict of the root, less the _sub_nodes keys
save_report == remove_specific_key(asdict(RootNode), "_sub_nodes")

\* a property of some Directory raises while asdict reads it
asdict_raises ==
    \E d \in Allocated : kind[d] = "Directory" /\ metrics_by_owners(d).raised # "none"

\* lines 418-421: the report is written when a report path was given
Report ==
    /\ pc = "Report"
    /\ \E report_path \in BOOLEAN :
         IF ~report_path
         THEN /\ pc' = "Done"
              /\ UNCHANGED <<report, error>>
         ELSE IF asdict_raises
         THEN /\ pc' = "Raised"
              /\ error' = "KeyError"
              /\ UNCHANGED report
         ELSE /\ pc' = "Done"
              /\ report' = save_report
              /\ UNCHANGED error
    /\ UNCHANGED <<treeVars, last_call, cfg, ctl, fcount, tasks, batch_from, disk, made>>
    /\ UNCHANGED <<auxVars, drawn, mat, names>>

\* --------------------------------------------------------- pool workers
\* a worker thread takes the oldest call still in the queue
WorkerStart(i) ==
    /\ tasks[i].status = "queued"
    /\ \A j \in DOMAIN tasks : j < i => tasks[j].status # "queued"
    /\ Cardinality(Running) < max_workers
    /\ tasks' = [tasks EXCEPT ![i].status = "running"]
    /\ UNCHANGED <<treeVars, last_call, cfg, pc, ctl, fcount, batch_from, disk, made, error>>
    /\ UNCHANGED <<auxVars, drawn, report, mat, names>>

\* what the OS call of a task needs to be there
Needs(t) ==
    {ParentOf(t.node)} \cup
        (IF t.op = "link" THEN {file_obj[t.node].node} ELSE {})

\* create_dir / create_file / make_hard_link / make_symlink returns
WorkerFinish(i) ==
    /\ tasks[i].status = "running"
    /\ Needs(tasks[i]) \subseteq disk
    /\ tasks[i].node \notin disk
    /\ tasks' = [tasks EXCEPT ![i].status = "done"]
    /\ disk' = disk \cup {tasks[i].node}
    /\ made' = [made EXCEPT ![tasks[i].node] = @ + 1]
    /\ IF tasks[i].op = "symlink"
       THEN \E st \in StSizes : make_symlink_node(tasks[i].node, st, tasks[i].owner)
       ELSE UNCHANGED <<file_obj, size, owner>>
    /\ UNCHANGED <<kind, sub_nodes, last_call, cfg, pc, ctl, fcount, batch_from, error>>
    /\ UNCHANGED <<auxVars, drawn, report, mat, names>>

\* the call raises: before the entry is made, or after it (chown, utime)
WorkerFail(i) ==
    /\ tasks[i].status = "running"
    /\ Cardinality({j \in DOMAIN tasks : tasks[j].status = "failed"}) < MaxFailures
    /\ tasks' = [tasks EXCEPT ![i].status = "failed"]
    /\ \E created \in BOOLEAN :
         IF created /\ Needs(tasks[i]) \subseteq disk /\ tasks[i].node \notin disk
                    /\ tasks[i].op # "link"
         THEN /\ disk' = disk \cup {tasks[i].node}
              /\ made' = [made EXCEPT ![tasks[i].node] = @ + 1]
              /\ IF tasks[i].op = "symlink"
                 THEN \E st \in StSizes :
                        make_symlink_node(tasks[i].node, st, owner[tasks[i].node])
                 ELSE UNCHANGED <<file_obj, size, owner>>
         ELSE UNCHANGED <<disk, made, file_obj, size, owner>>
    /\ UNCHANGED <<kind, sub_nodes, last_call, cfg, pc, ctl, fcount, batch_from, error>>
    /\ UNCHANGED <<auxVars, drawn, report, mat, names>>

Workers ==
    \E i \in DOMAIN tasks : WorkerStart(i) \/ WorkerFinish(i) \/ WorkerFail(i)

\* ------------------------------------------------------ the failure path
\* tree_full_path=None
NoTreePath == ""

\* rmtree(tree_full_path): the tree's root and everything below it
rmtree == {}

\* a sys_exit that removes the tree whatever it is called with
sys_exit_rollback(err_msg, tree_full_path) ==
    /\ disk' = rmtree
    /\ pc' = "Exited"

\* sys_exit: the tree is removed when its path is given, the message is
\* logged, sys.exit()
sys_exit(err_msg, tree_full_path) ==
    /\ disk' = IF tree_full_path # NoTreePath THEN rmtree ELSE disk
    /\ pc' = "Exited"

\* whether "except (SystemExit, InterruptedError, FileNotFoundError,
\* KeyboardInterrupt)" takes the exception: never an IndexError or a
\* ValueError; an OSError or the exception of a pool call may be of a class
\* that is caught (FileNotFoundError, SystemExit) or not (PermissionError
\* from mkdir, TypeError from make_symlink)
caught(e) == IF e \in {"IndexError", "ValueError"} THEN {FALSE} ELSE BOOLEAN

\* lines 423-425: the except clause of generate_tree calls
\* sys_exit(str(error)); any other exception leaves generate_tree as it is
Except ==
    /\ pc = "Failed"
    /\ \E c \in caught(error) :
         IF c THEN sys_exit(error, NoTreePath)
         ELSE /\ pc' = "Raised"
              /\ UNCHANGED disk
    /\ UNCHANGED <<treeVars, last_call, cfg, ctl, fcount, tasks, batch_from, made, error>>
    /\ UNCHANGED <<auxVars, drawn, report, mat, names>>

NextGen ==
    \/ CreateRoot
    \/ CreateDirsAtLevel
    \/ CreateFilesAtLevel
    \/ FinalFiles
    \/ MaterializeFiles
    \/ HardLinkIter
    \/ SymLinkIter
    \/ SubmitLinks
    \/ MapDone
    \/ MapRaise
    \/ Unwound
    \/ Except
    \/ Report
    \/ Workers

SpecGen == InitGen /\ [][NextGen]_vars

\* =================================================================
\* gen/tree_gen2.py: create_dir, create_file and the working directory
\* =================================================================
SegLimit == 100
ChunkLen == 50
MaxSegs == 101

\* str.split('/') gives '' in front of a leading '/'; the code writes '/' there
EmptySeg == 0
RootSeg == -1

\* places in the filesystem: the directory names from '/' down
START_PATH == <<9001>>
LaunchDir == <<9002>>

PathWorkers == {1, 2}
PathOps == {"create_dir", "create_file"}

\* how many names deep the thing to create is
SegCounts == {2} \cup ((SegLimit - 1)..MaxSegs)

\* full_path.split('/') of what thread w is to create, n names deep: dest is
\* absolute, or '' and the path starts with the tree's name
split(abs, n, w) ==
    (IF abs THEN <<EmptySeg>> ELSE <<>>) \o [i \in 1..n |-> IF i = n THEN 1000 + w ELSE i]

\* where the OS looks for path p when the working directory is c
Resolve(c, p) ==
    IF p # <<>> /\ p[1] \in {EmptySeg, RootSeg} THEN Tail(p) ELSE c \o p

IsRelative(p) == ~(p # <<>> /\ p[1] \in {EmptySeg, RootSeg})

\* lines 192 / 228: len(path.split('/')) > 100
is_chunked(sp) == Len(sp) > SegLimit

\* lines 193-194 / 229-230: dirs_list = split('/'); dirs_list[0] = '/'
dirs_list(sp) == [sp EXCEPT ![1] = RootSeg]

RECURSIVE list_of_dirs(_)
\* lines 196-198 / 232-234: the chunks of 50 the while loop cuts off
list_of_dirs(dl) ==
    IF Len(dl) > ChunkLen
    THEN <<SubSeq(dl, 1, ChunkLen)>> \o list_of_dirs(SubSeq(dl, ChunkLen + 1, Len(dl)))
    ELSE <<>>

RECURSIVE dirs_rest(_)
\* lines 199 / 235: what is left of dirs_list after the loop
dirs_rest(dl) ==
    IF Len(dl) > ChunkLen THEN dirs_rest(SubSeq(dl, ChunkLen + 1, Len(dl))) ELSE dl

\* the directories that are there: the tree down to the parent of what is
\* being created, below '/' or below the directory the run was started in
ExistsDir(loc, abs) ==
    \/ loc \in {START_PATH, LaunchDir}
    \/ \E k \in 0..MaxSegs :
          loc = (IF abs THEN <<>> ELSE LaunchDir) \o [i \in 1..k |-> i]

NoWork == [op |-> "none", abs |-> FALSE, path |-> <<>>, pc |-> "idle", entry_cwd |-> <<>>,
           todo |-> <<>>, rest |-> <<>>, touched |-> <<>>, acted |-> FALSE,
           disturbed |-> FALSE, op_disturbed |-> FALSE, exit_cwd |-> <<>>]

InCall(w) == wk[w].pc \in {"acquire", "chdir", "op", "restore"}

\* the process changes its working directory to c: every other call under
\* way has had the directory changed under it (disturbed), and those on
\* their way through the chunks or at their OS call will have their path
\* resolved against it (op_disturbed)
chdir(w, c, mine) ==
    /\ cwd' = c
    /\ wk' = [v \in PathWorkers |->
                IF v = w THEN mine
                ELSE IF InCall(v) /\ c # cwd
                     THEN [wk[v] EXCEPT !.disturbed = TRUE,
                                        !.op_disturbed = @ \/ wk[v].pc \in {"chdir", "op"}]
                     ELSE wk[v]]

\* "with lock:" is left, by return or by exception
release(w) == IF lock = w THEN 0 ELSE lock

InitPath ==
    /\ kind = [n \in Nodes |-> "none"]
    /\ owner = [n \in Nodes |-> ""]
    /\ size = [n \in Nodes |-> 0]
    /\ file_obj = [n \in Nodes |-> NoObj]
    /\ sub_nodes = [n \in Nodes |-> <<>>]
    /\ last_call = NoCall
    /\ cfg = NoCfg
    /\ pc = "idle"
    /\ ctl = NoCtl
    /\ fcount = 0
    /\ tasks = <<>>
    /\ batch_from = 1
    /\ disk = {}
    /\ made = [n \in Nodes |-> 0]
    /\ error = "none"
    /\ drawn = <<>>
    /\ report = NoReport
    /\ mat = NoMat
    /\ names = NoNames
    /\ cwd \in {START_PATH, LaunchDir}
    /\ lock = 0
    /\ wk = [w \in PathWorkers |-> NoWork]
    /\ fparams = NoParams

\* a pool thread is handed create_dir(path, owner) or create_file(file_obj);
\* the calls of one executor.map are all of one kind, and dest is one
Call(w) ==
    /\ wk[w].pc = "idle"
    /\ \E op \in PathOps, abs \in BOOLEAN, n \in SegCounts :
         /\ \A v \in PathWorkers \ {w} :
               wk[v].op # "none" => wk[v].op = op /\ wk[v].abs = abs
         /\ LET sp == split(abs, n, w)
                todo == IF is_chunked(sp) THEN list_of_dirs(dirs_list(sp)) ELSE <<>>
                rest == IF is_chunked(sp) THEN dirs_rest(dirs_list(sp)) ELSE sp
            IN  wk' = [wk EXCEPT ![w] =
                         [NoWork EXCEPT !.op = op, !.abs = abs, !.path = sp,
                            !.entry_cwd = cwd, !.todo = todo, !.rest = rest,
                            !.pc = IF op = "create_file" THEN "acquire"
                                   ELSE IF todo # <<>> THEN "chdir" ELSE "op"]]
    /\ UNCHANGED <<treeVars, last_call, genVars, cwd, lock, fparams>>

\* line 191: with lock
Acquire(w) ==
    /\ wk[w].pc = "acquire"
    /\ lock = 0
    /\ lock' = w
    /\ wk' = [wk EXCEPT ![w].pc = IF wk[w].todo # <<>> THEN "chdir" ELSE "op"]
    /\ UNCHANGED <<treeVars, last_call, genVars, cwd, fparams>>

\* lines 201-202 / 237-238: chdir(path_name) for the next chunk
Chdir(w) ==
    /\ wk[w].pc = "chdir"
    /\ LET to == Resolve(cwd, Head(wk[w].todo))
           seen == [wk[w] EXCEPT !.touched = to]
       IN  IF ExistsDir(to, wk[w].abs)
           THEN /\ chdir(w, to, [seen EXCEPT !.todo = Tail(@),
                                   !.pc = IF Tail(wk[w].todo) # <<>> THEN "chdir" ELSE "op"])
                /\ UNCHANGED lock
           ELSE /\ wk' = [wk EXCEPT ![w] = [seen EXCEPT !.pc = "raised", !.exit_cwd = cwd]]
                /\ lock' = release(w)
                /\ UNCHANGED cwd
    /\ UNCHANGED <<treeVars, last_call, genVars, fparams>>

\* lines 204-211 / 239-241: open ... utime, chown / mkdir, chown, on the
\* path that is left; the entry may be made before the call raises
Operate(w) ==
    /\ wk[w].pc = "op"
    /\ LET at == Resolve(cwd, wk[w].rest)
           seen == [wk[w] EXCEPT !.touched = at]
           parent == SubSeq(at, 1, Len(at) - 1)
       IN  \E made_it \in BOOLEAN, ok \in BOOLEAN :
             /\ made_it => ExistsDir(parent, wk[w].abs)
             /\ ok => made_it
             /\ IF ok
                THEN /\ wk' = [wk EXCEPT ![w] = [seen EXCEPT !.acted = TRUE, !.pc = "restore"]]
                     /\ UNCHANGED lock
                ELSE /\ wk' = [wk EXCEPT ![w] =
                                 [seen EXCEPT !.acted = made_it, !.pc = "raised",
                                              !.exit_cwd = cwd]]
                     /\ lock' = release(w)
    /\ UNCHANGED <<treeVars, last_call, genVars, cwd, fparams>>

\* lines 214 / 242: chdir(START_PATH), and the call returns
Restore(w) ==
    /\ wk[w].pc = "restore"
    /\ chdir(w, START_PATH, [wk[w] EXCEPT !.pc = "returned", !.exit_cwd = START_PATH])
    /\ lock' = release(w)
    /\ UNCHANGED <<treeVars, last_call, genVars, fparams>>

\* the pool thread is free for its next call
Free_thread(w) ==
    /\ wk[w].pc \in {"returned", "raised"}
    /\ wk' = [wk EXCEPT ![w] = NoWork]
    /\ UNCHANGED <<treeVars, last_call, genVars, cwd, lock, fparams>>

NextPath ==
    \E w \in PathWorkers :
        Call(w) \/ Acquire(w) \/ Chdir(w) \/ Operate(w) \/ Restore(w) \/ Free_thread(w)

SpecPath == InitPath /\ [][NextPath]_vars

\* =================================================================
\* gen/tree_gen2.py: _gen_file_params
\* =================================================================
\* byte counts are written <<k, r>> for k * 1024 + r, 0 <= r < 1024: the
\* large sizes do not fit the checker's integers
KiB == 1024

SIZE_SMALL == <<100, 0>>
SIZE_MEDIUM == <<100 * KiB, 0>>
SIZE_LARGE == <<100 * KiB * KiB, 0>>

SizeClasses == {"large", "medium", "small"}

\* file_params['size']
size_table(c) ==
    IF c = "large" THEN SIZE_LARGE ELSE IF c = "medium" THEN SIZE_MEDIUM ELSE SIZE_SMALL

\* file_params['type']: how many extensions each kind of file has
type_table ==
    [audio |-> 4, video |-> 4, txt |-> 6, img |-> 5, app |-> 3, script |-> 4,
     src |-> 3, bad |-> 6]

Leq(a, b) == a[1] < b[1] \/ (a[1] = b[1] /\ a[2] <= b[2])

\* int(float(b) * tenths / 10) for a whole number of KiB b
scale(b, tenths) ==
    <<(b[1] * tenths) \div 10, (((b[1] * tenths) % 10) * KiB) \div 10>>

\* a lower end of half the size
jitter_low_half(b) == scale(b, 5)

\* int(float(size) * 0.7)
jitter_low(b) == scale(b, 7)

\* int(float(size) * 1.3)
jitter_high(b) == scale(b, 13)

\* randint(lo, hi): the ends, their neighbours and the middle stand for all
randint_sizes(lo, hi) ==
    {v \in {lo, <<lo[1], lo[2] + 1>>, <<(lo[1] + hi[1]) \div 2, KiB \div 2>>,
            <<hi[1] - 1, KiB - 1>>, hi} : Leq(lo, v) /\ Leq(v, hi)}

\* the file_sizes a generator is made with: at least one of the classes
FileSizeLists == (SUBSET SizeClasses) \ {{}}

Idle ==
    /\ kind = [n \in Nodes |-> "none"]
    /\ owner = [n \in Nodes |-> ""]
    /\ size = [n \in Nodes |-> 0]
    /\ file_obj = [n \in Nodes |-> NoObj]
    /\ sub_nodes = [n \in Nodes |-> <<>>]
    /\ last_call = NoCall
    /\ cfg = NoCfg
    /\ pc = "idle"
    /\ ctl = NoCtl
    /\ fcount = 0
    /\ tasks = <<>>
    /\ batch_from = 1
    /\ disk = {}
    /\ made = [n \in Nodes |-> 0]
    /\ error = "none"
    /\ drawn = <<>>
    /\ report = NoReport
    /\ mat = NoMat
    /\ names = NoNames

InitParams ==
    /\ Idle
    /\ cwd = <<>>
    /\ lock = 0
    /\ wk = <<>>
    /\ \E fs \in FileSizeLists : fparams = [NoParams EXCEPT !.file_sizes = fs]

\* one call of _gen_file_params, and the size the File is given (line 264)
gen_file_params ==
    \E file_type \in DOMAIN type_table :
      \E file_ext \in 1..type_table[file_type] :
        \E c \in fparams.file_sizes :
          LET b == size_table(c) IN
            \E final_size \in randint_sizes(jitter_low(b), jitter_high(b)) :
               fparams' = [fparams EXCEPT !.size_class = c, !.base = b,
                              !.final_size = final_size,
                              !.file_type = <<file_type, file_ext>>]

\* what is left alone while a File is drawn, constructed and created
paramsFrame == <<treeVars, last_call, cfg, pc, ctl, fcount, tasks, batch_from, disk, made,
                 error, drawn, report, cwd, lock, wk, names>>

\* line 254: the parameters of the next File are drawn
GenFileParams ==
    /\ mat.state # "new"
    /\ gen_file_params
    /\ mat' = NoMat
    /\ UNCHANGED paramsFrame

\* the instants get_random_timestamp can give, in whole seconds: the start
\* time is an int and the timedelta has whole minutes, hours and days
Stamps == {1, 2}

\* strftime(TIME_FORMAT) of a datetime without microseconds, and
\* int(mktime(datetime.fromisoformat(s).timetuple())) of such a string:
\* the same second, in the other notation
strftime(t) == t
mktime(str) == str

\* the accounts getpwnam knows
passwd == {"root"}

\* lines 255-276: owner, atime and mtime are drawn, each by its own call, and
\* the File is constructed with int(final_size)
NewFile ==
    /\ mat.state = "none"
    /\ fparams.size_class # "none"
    /\ \E file_owner \in owners, atime \in Stamps, mtime \in Stamps :
         mat' = [state |-> "new",
                 file |-> [size |-> fparams.final_size, atime |-> strftime(atime),
                           mtime |-> strftime(mtime), owner |-> file_owner],
                 on_disk |-> NoAttrs]
    /\ UNCHANGED <<paramsFrame, fparams>>

\* byte counts: one less, one more
Pred(b) == IF b[2] > 0 THEN <<b[1], b[2] - 1>> ELSE <<b[1] - 1, KiB - 1>>
Succ(b) == IF b[2] < KiB - 1 THEN <<b[1], b[2] + 1>> ELSE <<b[1] + 1, 0>>

\* lines 207-209: converted_atime and converted_mtime, both computed from
\* file_obj.atime
utime_args(f) == [atime |-> mktime(f.atime), mtime |-> mktime(f.atime)]

\* lines 204-211: seek(size - 1) and one byte written, utime, chown; an
\* unknown owner raises from getpwnam after the file and its times are made
CreateFile ==
    /\ mat.state = "new"
    /\ LET f == mat.file
           written == [NoAttrs EXCEPT !.size = Succ(Pred(f.size)),
                                     !.atime = utime_args(f).atime,
                                     !.mtime = utime_args(f).mtime]
       IN  IF f.owner \in passwd
           THEN mat' = [mat EXCEPT !.state = "done",
                                   !.on_disk = [written EXCEPT !.owner = f.owner]]
           ELSE mat' = [mat EXCEPT !.state = "failed", !.on_disk = written]
    /\ UNCHANGED <<paramsFrame, fparams>>

NextParams ==
    \/ GenFileParams
    \/ NewFile
    \/ CreateFile

SpecParams == InitParams /\ [][NextParams]_vars

\* =================================================================
\* gen/tree_gen2.py: the names given to the children of one directory
\* =================================================================
\* self.name_length, and how many children the directory is given
NameLen == 1
MaxSiblings == 4

\* some of LETTERS, and the characters the f-strings add
Letters == {"D", "F"}
\* file_type: '' (of BAD_EXTENSIONS) and 'c' (of SRC_EXTENSIONS)
Extensions == {<<>>, <<"c">>}

\* name_generator(length): every string of `length` characters of LETTERS
RECURSIVE name_generator(_)
name_generator(length) ==
    IF length = 0 THEN {<<>>}
    ELSE {<<c>> \o rest : c \in Letters, rest \in name_generator(length - 1)}

\* str(num) of a loop index below ten
str(num) == <<(<<"0", "1", "2", "3", "4", "5", "6", "7", "8", "9">>)[num + 1]>>

\* f'F{file_name}.{file_type}', f'D{name}', f'HL{num}_{name}', f'SL{num}_{name}'
file_name_of(nm, file_type) == <<"F">> \o nm \o <<".">> \o file_type
dir_name_of(nm) == <<"D">> \o nm
hard_link_name_of(num, target) == <<"H", "L">> \o str(num) \o <<"_">> \o target
sym_link_name_of(num, target) == <<"S", "L">> \o str(num) \o <<"_">> \o target

\* the names a File and a Directory of the tree can have
FileNames == {file_name_of(nm, t) : nm \in name_generator(NameLen), t \in Extensions}
DirNames == {dir_name_of(nm) : nm \in name_generator(NameLen)} \cup name_generator(NameLen)

\* `file_name in [fl.name for fl in current_dir.files]` and
\* `dir_name in [dr.name for dr in current_dir.sub_dirs]`
name_in_never(nm, k) == FALSE
name_in(nm, k) == \E i \in DOMAIN names.ls : names.ls[i].kind = k /\ names.ls[i].name = nm

InitNames ==
    /\ Idle
    /\ AuxIdle
    /\ fparams = NoParams

\* line 290: the first name of a directory is drawn, with its prefix
DrawDirName ==
    /\ names.at = "dirs"
    /\ names.draw = <<>>
    /\ Len(names.ls) < MaxSiblings
    /\ \E nm \in name_generator(NameLen) :
         names' = [names EXCEPT !.draw = dir_name_of(nm)]
    /\ UNCHANGED <<treeVars, last_call, cfg, pc, ctl, fcount, tasks, batch_from, disk,
                   made, error, drawn, report, cwd, lock, wk, fparams, mat>>

\* lines 291-296: a name a sub-directory has is drawn again, without the
\* prefix; a free one becomes the name of the Directory, which is added
CheckDirName ==
    /\ names.at = "dirs"
    /\ names.draw # <<>>
    /\ IF name_in(names.draw, "Directory")
       THEN \E nm \in name_generator(NameLen) : names' = [names EXCEPT !.draw = nm]
       ELSE names' = [names EXCEPT
                         !.ls = Append(@, [kind |-> "Directory", name |-> names.draw]),
                         !.draw = <<>>]
    /\ UNCHANGED <<treeVars, last_call, cfg, pc, ctl, fcount, tasks, batch_from, disk,
                   made, error, drawn, report, cwd, lock, wk, fparams, mat>>

\* lines 257-258: create_files_at_level follows create_dirs_at_level; the
\* first name of a file is drawn with its prefix and its file_type
DrawFileName ==
    /\ names.at \in {"dirs", "files"}
    /\ names.draw = <<>>
    /\ Len(names.ls) < MaxSiblings
    /\ \E nm \in name_generator(NameLen), file_type \in Extensions :
         names' = [names EXCEPT !.draw = file_name_of(nm, file_type), !.at = "files"]
    /\ UNCHANGED <<treeVars, last_call, cfg, pc, ctl, fcount, tasks, batch_from, disk,
                   made, error, drawn, report, cwd, lock, wk, fparams, mat>>

\* lines 259-276: a name a file of the directory has is drawn again, prefix
\* and file_type included; a free one becomes the name of the File
CheckFileName ==
    /\ names.at = "files"
    /\ names.draw # <<>>
    /\ IF name_in(names.draw, "File")
       THEN \E nm \in name_generator(NameLen), file_type \in Extensions :
              names' = [names EXCEPT !.draw = file_name_of(nm, file_type)]
       ELSE names' = [names EXCEPT
                         !.ls = Append(@, [kind |-> "File", name |-> names.draw]),
                         !.draw = <<>>]
    /\ UNCHANGED <<treeVars, last_call, cfg, pc, ctl, fcount, tasks, batch_from, disk,
                   made, error, drawn, report, cwd, lock, wk, fparams, mat>>

\* lines 328-338: the hard links follow every file; the loop index is part of
\* the name, whichever directory the link goes to, and the name is not looked
\* up among the children
NameHardLink ==
    /\ names.at \in {"dirs", "files", "hard_links"}
    /\ names.draw = <<>>
    /\ Len(names.ls) < MaxSiblings
    /\ LET from == IF names.at = "hard_links" THEN names.num ELSE 0 IN
         \E elsewhere \in 0..1, target \in FileNames :
           names' = [names EXCEPT
                        !.ls = Append(@, [kind |-> "HardLink",
                                          name |-> hard_link_name_of(from + elsewhere, target)]),
                        !.at = "hard_links",
                        !.num = from + elsewhere + 1]
    /\ UNCHANGED <<treeVars, last_call, cfg, pc, ctl, fcount, tasks, batch_from, disk,
                   made, error, drawn, report, cwd, lock, wk, fparams, mat>>

\* lines 359-372: the symlinks follow the hard links, with an index of their
\* own; the target is a File or a Directory
NameSymLink ==
    /\ names.draw = <<>>
    /\ Len(names.ls) < MaxSiblings
    /\ LET from == IF names.at = "symlinks" THEN names.num ELSE 0 IN
         \E elsewhere \in 0..1, target \in FileNames \cup DirNames :
           names' = [names EXCEPT
                        !.ls = Append(@, [kind |-> "SymLink",
                                          name |-> sym_link_name_of(from + elsewhere, target)]),
                        !.at = "symlinks",
                        !.num = from + elsewhere + 1]
    /\ UNCHANGED <<treeVars, last_call, cfg, pc, ctl, fcount, tasks, batch_from, disk,
                   made, error, drawn, report, cwd, lock, wk, fparams, mat>>

NextNames ==
    \/ DrawDirName
    \/ CheckDirName
    \/ DrawFileName
    \/ CheckFileName
    \/ NameHardLink
    \/ NameSymLink

SpecNames == InitNames /\ [][NextNames]_vars

\* =================================================================
\* What the claims are measured against: the tree as a set of nodes
\* =================================================================
Children(d) == Range(sub_nodes[d])

RECURSIVE Desc(_)
\* every node below n
Desc(n) == Children(n) \cup UNION {Desc(c) : c \in Children(n)}

Dirs == {n \in Allocated : kind[n] = "Directory"}
OfKind(S, ks) == {n \in S : kind[n] \in ks}

RECURSIVE SumOver(_, _)
SumOver(S, f) ==
    IF S = {} THEN 0
    ELSE LET x == CHOOSE y \in S : TRUE IN f[x] + SumOver(S \ {x}, f)

\* C1: add_node on a File, HardLink or SymLink raises an error and changes
\* nothing: a leaf never has a child, and the latest add_node call, when
\* its target is a leaf, raised TypeError and left every attribute and
\* every child list as it was.
C1_LeafContract ==
    /\ \A n \in Allocated : kind[n] \in LeafKinds => sub_nodes[n] = <<>>
    /\ (last_call.target \in Allocated /\ kind[last_call.target] \in LeafKinds)
          => (last_call.raised = "TypeError" /\ ~last_call.mutated)

\* an add_node call on a leaf has been made and has failed, in a tree that
\* has a directory with children
C1_Witness ==
    /\ last_call.target \in Allocated
    /\ kind[last_call.target] \in LeafKinds
    /\ last_call.raised = "TypeError"
    /\ Len(sub_nodes[RootNode]) >= 2

\* C2: total_sub_dirs_count(d) is the number of Directory nodes anywhere
\* below d, and sub_dirs_count(d) the number of direct Directory children.
C2_SubDirsCounts ==
    \A d \in Dirs :
        /\ total_sub_dirs_count(d) = Cardinality(OfKind(Desc(d), {"Directory"}))
        /\ sub_dirs_count(d) = Cardinality(OfKind(Children(d), {"Directory"}))

\* C3: total_entries(d) is total_files_count + total_hard_links_count +
\* total_sub_dirs_count, the number of nodes in the whole subtree below d.
C3_TotalEntries ==
    \A d \in Dirs :
        /\ total_entries(d) = total_files_count(d) + total_hard_links_count(d)
                                + total_sub_dirs_count(d)
        /\ total_entries(d) = Cardinality(Desc(d))

\* C4: total_files_count(r) is the sum, over r and every directory below
\* r, of the number of direct File and SymLink children, which is what
\* current_dir_files_count gives for each of them.
C4_TotalFilesCount ==
    \A r \in Dirs :
        LET direct == [d \in Dirs |->
                         Cardinality(OfKind(Children(d), {"File", "SymLink"}))]
        IN  /\ current_dir_files_count(r) = direct[r]
            /\ total_files_count(r) =
                 SumOver({r} \cup OfKind(Desc(r), {"Directory"}), direct)

\* a directory below another one holds a symlink
C4_Witness ==
    \E r \in Dirs : \E d \in OfKind(Desc(r), {"Directory"}) :
        OfKind(Children(d), {"SymLink"}) # {}

\* C5: total_size_all_files(r) is the sum of the current size of every
\* File and SymLink below r, a patched SymLink size included.
C5_TotalSize ==
    \A r \in Dirs :
        total_size_all_files(r) = SumOver(OfKind(Desc(r), {"File", "SymLink"}), size)

\* a file and a symlink whose size has been patched are in the tree
C5_Witness ==
    /\ \E n \in Desc(RootNode) : kind[n] = "SymLink" /\ size[n] > LinkOverhead
    /\ \E n \in Desc(RootNode) : kind[n] = "File"

\* the owners of every File, SymLink and Directory below d are possible
OwnersKnown(d) ==
    \A n \in OfKind(Desc(d), {"File", "SymLink", "Directory"}) :
        owner[n] \in possible_owners(d)

\* C6: when every File, SymLink and Directory owner below d is a possible
\* owner, metrics_by_owners(d) returns, and its own_files_count sum up to
\* current_dir_files_count(d), its sub_files_count to total_files_count(d).
C6_OwnerReconciliation ==
    \A d \in Dirs :
        OwnersKnown(d) =>
            LET res == metrics_by_owners(d)
                own == [o \in possible_owners(d) |-> res.metrics[o].own_files_count]
                sub == [o \in possible_owners(d) |-> res.metrics[o].sub_files_count]
            IN  /\ res.raised = "none"
                /\ SumOver(possible_owners(d), own) = current_dir_files_count(d)
                /\ SumOver(possible_owners(d), sub) = total_files_count(d)

\* a directory with a file of its own and a sub-directory holding a symlink,
\* all owners possible
C6_Witness ==
    \E d \in Dirs :
        /\ OwnersKnown(d)
        /\ \E e \in OfKind(Children(d), {"Directory"}) :
               OfKind(Children(e), {"File", "SymLink"}) # {}

\* C7: when a File, SymLink or Directory below d has an owner that is not
\* a possible owner, metrics_by_owners(d) raises the lookup error.
C7_UnknownOwnerFaults ==
    \A d \in Dirs :
        ~OwnersKnown(d) => metrics_by_owners(d).raised = "KeyError"

\* the unknown owner is on a node two levels below d
C7_Witness ==
    \E d \in Dirs : \E e \in OfKind(Children(d), {"Directory"}) :
        /\ owner[e] \in possible_owners(d)
        /\ \E n \in Children(e) :
              kind[n] \in {"File", "SymLink", "Directory"}
              /\ owner[n] \notin possible_owners(d)

\* ------------------------------------------------ the construction run
\* the OS creation of n has completed: the root is there from CreateRoot on,
\* anything else once the pool call that makes it has returned
Completed(n) ==
    \/ n = RootNode /\ n \in disk
    \/ \E j \in DOMAIN tasks :
          /\ tasks[j].node = n
          /\ tasks[j].op \in {"mkdir", "create_file"}
          /\ tasks[j].status = "done"

TasksOf(ops) == {i \in DOMAIN tasks : tasks[i].op \in ops}

\* C8: a hard-link or symlink creation is in the pool only when the OS
\* creation of its target and of its containing directory has completed, and
\* when every create_file call of the sweep has returned and nothing older
\* than the link calls is still in the pool.
C8_LinksAfterTargets ==
    \A i \in TasksOf({"link", "symlink"}) :
        /\ Completed(file_obj[tasks[i].node].node)
        /\ Completed(ParentOf(tasks[i].node))
        /\ \A j \in TasksOf({"mkdir", "create_file"}) : tasks[j].status = "done"
        /\ \A n \in Allocated : kind[n] = "File" => Completed(n)

\* a hard link to a File has been made and a symlink is being made
C8_Witness ==
    \E i \in TasksOf({"link"}), j \in TasksOf({"symlink"}) :
        /\ tasks[i].status = "done"
        /\ kind[file_obj[tasks[i].node].node] = "File"
        /\ tasks[j].status = "running"

\* C9: a mkdir call and a create_file call are in the pool only when the
\* mkdir of the parent directory of what they make has completed.
C9_ParentsFirst ==
    \A i \in TasksOf({"mkdir", "create_file"}) : Completed(ParentOf(tasks[i].node))

\* a directory below a sub-directory has been made, and a file below a
\* sub-directory is being made
C9_Witness ==
    /\ \E i \in TasksOf({"mkdir"}) :
          /\ ParentOf(tasks[i].node) # RootNode
          /\ tasks[i].status = "done"
    /\ \E i \in TasksOf({"create_file"}) :
          /\ ParentOf(tasks[i].node) # RootNode
          /\ tasks[i].status = "running"

FileNodes == {n \in Allocated : kind[n] = "File"}
DirNodes == {n \in Allocated : kind[n] = "Directory"}
DirsOnDisk == DirNodes \cap disk
FileMaterialized == \E n \in FileNodes : made[n] > 0

ShapeFinal == ctl.stage = "final" /\ ctl.idx > Len(ctl.level)

\* the create_file calls are one map: they sit next to each other in the
\* pool's log, one per File, submitted when the shape was final
OneSweep ==
    /\ TasksOf({"create_file"}) # {} => ShapeFinal
    /\ \A i, j \in TasksOf({"create_file"}) :
          /\ \A k \in i..j : tasks[k].op = "create_file"
          /\ tasks[i].node = tasks[j].node => i = j

\* C10: once a File has been materialized no Directory is added to the tree
\* or made on disk; the create_file calls are one sweep, submitted after the
\* levels and the last file pass are over; in the finished tree every File
\* has been materialized exactly once.
C10_DeferredFiles ==
    /\ [](OneSweep /\ (pc = "Done" => \A n \in FileNodes : made[n] = 1 /\ n \in disk))
    /\ [][FileMaterialized => (DirNodes' = DirNodes /\ DirsOnDisk' = DirsOnDisk)]_vars

\* a finished run whose tree has a File in the root and one in a sub-directory
C10_Witness ==
    /\ pc = "Done"
    /\ \E n, m \in FileNodes :
          /\ ParentOf(n) = RootNode /\ ParentOf(m) # RootNode
          /\ made[n] = 1 /\ made[m] = 1

\* ------------------------------------------- the working directory
\* thread w is at a chdir, or at an OS call on a path the OS resolves
\* against the working directory
InCwdRegion(w) ==
    \/ wk[w].pc \in {"chdir", "restore"}
    \/ wk[w].pc = "op" /\ IsRelative(wk[w].rest)

\* C11: whoever changes the working directory, or runs an OS call that is
\* resolved against it, holds the lock; and no relative path has been
\* resolved after another thread changed the working directory under the call.
C11_CwdUnderLock ==
    \A w \in PathWorkers :
        /\ InCwdRegion(w) => lock = w
        /\ (wk[w].touched # <<>> /\ IsRelative(wk[w].rest)) => ~wk[w].op_disturbed

\* where an unchunked creation on the path of w's call acts
Intended(w) == Resolve(wk[w].entry_cwd, wk[w].path)

IsPrefix(a, b) == Len(a) <= Len(b) /\ a = SubSeq(b, 1, Len(a))

\* C12: a call nobody interfered with goes only through directories on the
\* way to where the unchunked creation acts and makes its entry exactly
\* there; the rest it operates on is non-empty and at most 50 long; a path
\* of at most 100 segments is used as it is.
C12_ChunkedSameLocation ==
    \A w \in PathWorkers :
        /\ (wk[w].touched # <<>> /\ ~wk[w].op_disturbed) =>
              /\ IsPrefix(wk[w].touched, Intended(w))
              /\ wk[w].acted => wk[w].touched = Intended(w)
        /\ wk[w].op # "none" =>
              /\ wk[w].rest # <<>> /\ Len(wk[w].rest) <= IF is_chunked(wk[w].path)
                                                         THEN ChunkLen ELSE SegLimit
              /\ ~is_chunked(wk[w].path) => wk[w].rest = wk[w].path /\ wk[w].todo = <<>>

\* C13: when a call nobody interfered with has returned or raised, the
\* working directory is what it was when the call began.
C13_CwdRestored ==
    \A w \in PathWorkers :
        (wk[w].pc \in {"returned", "raised"} /\ ~wk[w].disturbed) =>
            wk[w].exit_cwd = wk[w].entry_cwd

\* ------------------------------------------------- the shape of the tree
RECURSIVE DepthOf(_)
\* how many directories lie between n and the root, n itself counted
DepthOf(n) == IF n = RootNode THEN 0 ELSE 1 + DepthOf(ParentOf(n))

SubDirsOf(d) == {n \in Children(d) : kind[n] = "Directory"}
FilesOf(d) == {n \in Children(d) : kind[n] = "File"}

RECURSIVE SumPow(_, _)
\* b + b^2 + ... + b^e
SumPow(b, e) == IF e = 0 THEN 0 ELSE Pow(b, e) + SumPow(b, e - 1)

\* C14: after a successful run in fixed mode every directory less than
\* tree_depth deep has dirs_count sub-directories, those tree_depth deep have
\* none, every directory has files_count File children, and the totals are
\* the sum of the powers of dirs_count and what arg_parser expects.
C14_FixedShape ==
    (pc = "Done" /\ ~cfg.random) =>
        /\ \A d \in DirNodes :
              /\ DepthOf(d) <= cfg.tree_depth
              /\ DepthOf(d) < cfg.tree_depth => Cardinality(SubDirsOf(d)) = cfg.dirs_count
              /\ DepthOf(d) = cfg.tree_depth => SubDirsOf(d) = {}
              /\ Cardinality(FilesOf(d)) = cfg.files_count
        /\ Cardinality(DirNodes) - 1 = SumPow(cfg.dirs_count, cfg.tree_depth)
        /\ Cardinality(DirNodes) - 1 = expected_tree_dirs_count(cfg) - 1
        /\ Cardinality(FileNodes)
             = (SumPow(cfg.dirs_count, cfg.tree_depth) + 1) * cfg.files_count
        /\ Cardinality(FileNodes)
             = expected_tree_files_count(cfg) - cfg.hard_links_count - cfg.symlinks_count

\* a finished fixed-mode run two levels deep with a file in every directory
C14_Witness ==
    /\ pc = "Done" /\ ~cfg.random
    /\ cfg.tree_depth = 2 /\ cfg.files_count = 1
    /\ \E d \in DirNodes : DepthOf(d) = 2 /\ FilesOf(d) # {}

\* C15: after a successful run in ranged mode no directory lies deeper than
\* tree_depth, every directory less than tree_depth deep has between
\* min_dirs_count and max_dirs_count sub-directories, and every directory has
\* between min_files_count and max_files_count File children.
C15_RangedShape ==
    (pc = "Done" /\ cfg.random) =>
        \A d \in DirNodes :
            /\ DepthOf(d) <= cfg.tree_depth
            /\ DepthOf(d) < cfg.tree_depth =>
                  /\ Cardinality(SubDirsOf(d)) >= cfg.min_dirs_count
                  /\ Cardinality(SubDirsOf(d)) <= cfg.max_dirs_count
            /\ Cardinality(FilesOf(d)) >= cfg.min_files_count
            /\ Cardinality(FilesOf(d)) <= cfg.max_files_count

\* a finished ranged run in which two directories of one level got different
\* numbers of sub-directories
C15_Witness ==
    /\ pc = "Done" /\ cfg.random /\ cfg.min_dirs_count < cfg.max_dirs_count
    /\ \E d, e \in DirNodes :
          /\ DepthOf(d) = 1 /\ DepthOf(e) = 1 /\ cfg.tree_depth > 1
          /\ Cardinality(SubDirsOf(d)) # Cardinality(SubDirsOf(e))

\* C16: over a tree with a File and a sub-directory, choosing the targets and
\* the places of the links never raises, and the finished tree has exactly
\* hard_links_count HardLink and symlinks_count SymLink nodes.
C16_LinksNeverFault ==
    (FileNodes # {} /\ DirNodes # {RootNode}) =>
        /\ error \notin {"IndexError", "ValueError"}
        /\ pc = "Done" =>
              /\ Cardinality({n \in Allocated : kind[n] = "HardLink"}) = cfg.hard_links_count
              /\ Cardinality({n \in Allocated : kind[n] = "SymLink"}) = cfg.symlinks_count

\* ------------------------------------------------------ the file sizes
\* the windows in bytes, as k * 1024 + r: 71680..133120 for small,
\* 73400320..136314880 for medium, 75161927680..139586437120 for large
SizeWindow(c) ==
    IF c = "small" THEN <<(<<70, 0>>), (<<130, 0>>)>>
    ELSE IF c = "medium" THEN <<(<<71680, 0>>), (<<133120, 0>>)>>
    ELSE <<(<<73400320, 0>>), (<<136314880, 0>>)>>

\* C17: the size a File gets lies in the jitter window, 0.7 to 1.3 times the
\* base, of a size class that is among file_sizes; with file_sizes = [small]
\* it lies in 71680..133120.
C17_SizeWindow ==
    fparams.size_class # "none" =>
        /\ fparams.size_class \in fparams.file_sizes
        /\ Leq(SizeWindow(fparams.size_class)[1], fparams.final_size)
        /\ Leq(fparams.final_size, SizeWindow(fparams.size_class)[2])
        /\ fparams.final_size[2] \in 0..(KiB - 1)
        /\ fparams.file_sizes = {"small"} =>
              /\ fparams.final_size[1] * KiB + fparams.final_size[2] >= 71680
              /\ fparams.final_size[1] * KiB + fparams.final_size[2] <= 133120

\* a large file of the smallest size its window allows
C17_Witness ==
    /\ fparams.size_class = "large"
    /\ fparams.final_size = <<73400320, 0>>

\* ---------------------------------------------------------------- C18
\* the objects the log asks for, numbered in the order of the asking
FromDraws(n) == IF n <= Len(drawn) THEN drawn[n] ELSE [kind |-> "none", parent |-> -1]

\* the _sub_nodes list the log gives directory d
SubNodesFromDraws(d) ==
    SelectSeq([i \in 1..Len(drawn) |-> i], LAMBDA i : drawn[i].parent = d)

\* the symlink n as make_symlink leaves it, given what was drawn for it
SymLinkFromDraws(n) ==
    /\ owner[n] = drawn[n].link_owner
    /\ size[n] \in {st + LinkOverhead : st \in StSizes}
    /\ file_obj[n].node = drawn[n].file_obj.node
    /\ file_obj[n].live = (kind[drawn[n].file_obj.node] # "Directory")

SomeFailed == \E j \in DOMAIN tasks : tasks[j].status = "failed"

\* nothing is handed to the executor in this step
NothingDispatched == Len(tasks') = Len(tasks)

\* no call waiting in the executor's queue is begun in this step
NothingBegun ==
    \A i \in DOMAIN tasks : tasks[i].status = "queued" => tasks'[i].status # "running"

\* C19: from the moment a call of the run has raised, no step hands a new
\* call to the executor, no step begins a call that was still waiting in the
\* queue, and no step reaches the report or the end of a finished run.
C19_AbortAtOnce ==
    [][SomeFailed => /\ NothingDispatched
                     /\ NothingBegun
                     /\ pc' \notin {"Report", "Done"}]_vars

\* ---------------------------------------------------------------- C20
\* the run has failed: a call has raised, or the calling thread has
RunFailed == SomeFailed \/ error # "none" \/ pc \in {"Unwinding", "Failed", "Exited", "Raised"}

\* C20: in a run that has failed, no step removes an object from the disk
\* (what the pool threads still running add stays as well), a call that has
\* raised stays as it is, and no call for the object of a call that raised is
\* handed to the executor again.
C20_NoRollbackNoRetry ==
    [][RunFailed =>
         /\ disk \subseteq disk'
         /\ \A i \in DOMAIN tasks :
               tasks[i].status = "failed" =>
                 /\ tasks'[i] = tasks[i]
                 /\ \A j \in DOMAIN tasks' :
                       j # i => tasks'[j].node # tasks[i].node]_vars

\* generate_tree has gone through sys_exit after a pool call raised, and the
\* root and something below it are on the disk
C20_Witness ==
    /\ pc = "Exited"
    /\ SomeFailed
    /\ RootNode \in disk
    /\ Cardinality(disk) >= 2

\* ---------------------------------------------------------------- C21
\* the values type_constraint takes
Filters == {"None"} \cup Kinds

\* n and every node below it
SubTree(n) == {n} \cup Desc(n)

\* the position of child c in the _sub_nodes list of d
PosIn(d, c) == CHOOSE i \in DOMAIN sub_nodes[d] : sub_nodes[d][i] = c

\* x comes before y in a depth-first pre-order walk that follows insertion
\* order: x is above y, or they part at a directory whose child towards x
\* was inserted before its child towards y
PreOrderBefore(x, y) ==
    \/ y \in Desc(x)
    \/ \E a \in Allocated : \E cx, cy \in Children(a) :
          /\ x \in SubTree(cx) /\ y \in SubTree(cy)
          /\ PosIn(a, cx) < PosIn(a, cy)

MaxScanDepth == 3
ScanDepths == {Unbounded} \cup (0..MaxScanDepth)

RECURSIVE LevelsBelow(_, _)
\* how many levels below n its descendant m lies: 1 for a direct child
LevelsBelow(n, m) ==
    IF m \in Children(n) THEN 1 ELSE 1 + LevelsBelow(n, ParentOf(m))

RECURSIVE Flatten(_)
Flatten(ss) == IF ss = <<>> THEN <<>> ELSE Head(ss) \o Flatten(Tail(ss))

RECURSIVE HasKey(_, _)
\* some dict inside the value v, at whatever depth, has the key k
HasKey(v, k) ==
    IF v.t = "dict"
    THEN \E i \in DOMAIN v.items : v.items[i].key = k \/ HasKey(v.items[i].val, k)
    ELSE IF v.t = "list"
    THEN \E i \in DOMAIN v.items : HasKey(v.items[i], k)
    ELSE FALSE

\* the node a record of the report is the record of
NameOf(rec) == (CHOOSE kv \in Range(rec.items) : kv.key = "name").val.v

TypedKeys == {"sub_dirs", "files", "hard_links", "symlinks"}
TypedKey(k) ==
    IF k = "Directory" THEN "sub_dirs" ELSE IF k = "File" THEN "files"
    ELSE IF k = "HardLink" THEN "hard_links" ELSE "symlinks"

RECURSIVE Entries(_)
\* every item of every typed collection found anywhere in the value v: the
\* node it is the record of, the collection, and the node of the record
\* holding the collection
Entries(v) ==
    IF v.t = "dict"
    THEN Flatten([i \in DOMAIN v.items |->
            (IF v.items[i].key \in TypedKeys
             THEN [j \in DOMAIN v.items[i].val.items |->
                     [parent |-> NameOf(v), key |-> v.items[i].key,
                      node |-> NameOf(v.items[i].val.items[j])]]
             ELSE <<>>)
            \o Entries(v.items[i].val)])
    ELSE IF v.t = "list"
    THEN Flatten([i \in DOMAIN v.items |-> Entries(v.items[i])])
    ELSE <<>>

InRange(idx, lst) == {lst[i + 1] : i \in {j \in idx : j < Len(lst)}}

SelectableLocations == InRange(dir_indexes(get_all_dirs(RootNode)), get_all_dirs(RootNode))
SelectableFiles == InRange(file_indexes(get_all_files(RootNode)), get_all_files(RootNode))
SelectableDirs == InRange(dir_indexes(get_all_dirs(RootNode)), get_all_dirs(RootNode))

\* C24: while the links are being chosen, the Files a hard link may point at
\* are all the Files of the tree; a symlink may point at any File and any
\* Directory below the root; a link may be put in any Directory, the root
\* included; and every link made so far points at a File (hard link) or at a
\* File or Directory (symlink), never at a link.
C24_CompleteInventory ==
    pc \in {"HardLinks", "SymLinks"} =>
      /\ SelectableFiles = FileNodes
      /\ DirNodes \ {RootNode} \subseteq SelectableDirs
      /\ SelectableLocations = DirNodes
      /\ \A n \in Allocated :
            /\ kind[n] = "HardLink" => kind[file_obj[n].node] = "File"
            /\ kind[n] = "SymLink" => kind[file_obj[n].node] \in {"File", "Directory"}

\* ---------------------------------------------------------------- C25
\* C25: a File that create_file has made has, on disk, the length, the
\* access time, the modification time and the owner of its File object.
C25_DiskMatchesNode ==
    mat.state = "done" =>
      /\ mat.on_disk.size = mat.file.size
      /\ mat.on_disk.atime = mktime(mat.file.atime)
      /\ mat.on_disk.mtime = mktime(mat.file.mtime)
      /\ mat.on_disk.owner = mat.file.owner

\* ---------------------------------------------------------------- C26
\* C26: no step changes the class, the owner or the link target of an object
\* that is in the tree, and the only size a step changes is that of a SymLink
\* whose size was still the 0 it was constructed with and whose link is on
\* the disk after the step.
C26_OnlySymLinkSize ==
    [][\A n \in Allocated :
         /\ kind'[n] = kind[n]
         /\ owner'[n] = owner[n]
         /\ file_obj'[n] = file_obj[n]
         /\ size'[n] # size[n] =>
               kind[n] = "SymLink" /\ size[n] = 0 /\ n \in disk']_vars

\* ---------------------------------------------------------------- C27
RECURSIVE ValuesAt(_, _)
\* the values found under the key k anywhere in the value v
ValuesAt(v, k) ==
    IF v.t = "dict"
    THEN Flatten([i \in DOMAIN v.items |->
            (IF v.items[i].key = k THEN <<v.items[i].val>> ELSE <<>>)
            \o ValuesAt(v.items[i].val, k)])
    ELSE IF v.t = "list"
    THEN Flatten([i \in DOMAIN v.items |-> ValuesAt(v.items[i], k)])
    ELSE <<>>

\* the symlinks that point at a Directory
DirSymLinks == {n \in Allocated : kind[n] = "SymLink" /\ kind[file_obj[n].node] = "Directory"}

C29_OwnersConfigured ==
    \A d \in Dirs :
        /\ OwnersKnown(d)
        /\ metrics_by_owners(d).raised = "none"

\* C28: at every point of a run the children of one directory have pairwise
\* distinct names: no two entries of its listing, of the same kind or of
\* different kinds, carry the same name, and a name is only given to a File
\* or a Directory when no sibling of that kind has it.
C28_DistinctSiblings ==
    \A i, j \in DOMAIN names.ls :
        i # j => names.ls[i].name # names.ls[j].name

\* a directory with a sub-directory whose name was drawn again after a
\* collision, a hard link and a symlink
C28_Witness ==
    /\ \E i \in DOMAIN names.ls :
         /\ names.ls[i].kind = "Directory"
         /\ Len(names.ls[i].name) = NameLen
    /\ \E i \in DOMAIN names.ls : names.ls[i].kind = "HardLink"
    /\ \E i \in DOMAIN names.ls : names.ls[i].kind = "SymLink"

\* ---------------------------------------------------------------- C30
\* the phase the calling thread is in: 1 CreateRoot, 2 ExpandLevels,
\* 3 MaterializeFiles, 4 hard links, 5 symlinks, 6 Report, 7 Done; a run
\* that has been stopped by an exception is past all of them
Phase(p) ==
    IF p = "CreateRoot" THEN 1
    ELSE IF p \in {"Dirs", "DrainDirs", "Files", "FinalFiles"} THEN 2
    ELSE IF p \in {"MaterializeFiles", "DrainFiles"} THEN 3
    ELSE IF p \in {"HardLinks", "DrainHardLinks"} THEN 4
    ELSE IF p \in {"SymLinks", "DrainSymLinks"} THEN 5
    ELSE IF p = "Report" THEN 6
    ELSE IF p = "Done" THEN 7
    ELSE 8

Stopped == {"Unwinding", "Failed", "Exited", "Raised"}

\* an operation on the filesystem has failed: the making of the root, or a
\* call handed to the executor
OSFailed == error = "OSError" \/ SomeFailed

\* no step takes the run back to an earlier phase, and none takes a stopped
\* run back into a phase
PhaseOrder == Phase(pc') >= Phase(pc)

\* C30: every run goes through the phases CreateRoot, ExpandLevels,
\* MaterializeFiles, MaterializeLinks (hard links, then symlinks), Report,
\* Done in this order and never returns to an earlier one, and a run in
\* which no operation on the filesystem has failed is never stopped short of
\* Done: it is in one of the phases, on its way to Done.
C30_LinearToDone ==
    /\ [][PhaseOrder]_vars
    /\ [](~OSFailed => pc \notin Stopped)

====
